---- MODULE Spec2Model ----
(***************************************************************************)
(* BucketDeployment (@aws-cdk/aws-s3-deployment, lib/bucket-deployment.ts) *)
(* as a state machine.  One action, BucketDeployment(p), is the whole      *)
(* constructor; the state is what constructions leave behind in one stack: *)
(* the singleton handler registry, the policies attached to the handlers'  *)
(* roles, the sources bound, and the custom resources emitted.  The three  *)
(* module-level functions renderSingletonUuid, mapUserMetadata and         *)
(* mapSystemMetadata are operators, each also exercised on its own by a    *)
(* specification that draws its argument in Init and then calls it.        *)
(*                                                                         *)
(* Encoding of JavaScript values:                                          *)
(*   - an optional value is Absent (undefined) or Some(v);                 *)
(*   - invalidation paths and user-metadata keys are sequences of          *)
(*     one-character strings, so that startsWith and toLowerCase are       *)
(*     computed; other strings are TLA+ strings;                           *)
(*   - a JavaScript object is a function from its keys to its values;      *)
(*     an object whose key order matters (the user metadata map) is the    *)
(*     sequence of its <<key, value>> entries in Object.keys order.        *)
(***************************************************************************)
EXTENDS Integers, Sequences, FiniteSets, TLC

VARIABLES
  nConstructs,  \* constructs registered in the scope (super(scope, id) ran)
  handlers,     \* the stack's singleton functions: uuid -> handler
  layers,       \* number of AwsCliLayer constructs created
  rolePolicy,   \* role -> set of policy statements attached to it
  bindLog,      \* the calls source.bind(this, { handlerRole }) made so far
  resources,    \* the Custom::CDKBucketDeployment resources emitted so far
  deployments,  \* props of the constructions that completed, in order
  props,        \* argument of the most recent constructor call
  error,        \* its outcome: "ok" or the message of the Error thrown
  arg,          \* argument of a module-level function called on its own
  ret,          \* its result
  pc            \* "idle" | "called"

vars == <<nConstructs, handlers, layers, rolePolicy, bindLog, resources,
          deployments, props, error, arg, ret, pc>>

stackVars == <<nConstructs, handlers, layers, rolePolicy, bindLog, resources,
               deployments, props, error>>

-----------------------------------------------------------------------------
(* Bounds *)

MaxConstructs == 3
MaxCalls == 2
MaxSources == 2
MaxPaths == 2
MaxEntries == 2
MaxKeyLen == 2
MaxSystemFields == 3
MaxMemoryLimit == 130

-----------------------------------------------------------------------------
(* JavaScript values *)

Absent == <<>>
Some(v) == <<v>>

\* `if (x)` for an optional string: undefined and '' are falsy.
TruthyString(o) == o # Absent /\ o[1] # ""

\* `if (x)` for an optional object or array: only undefined is falsy.
TruthyObject(o) == o # Absent

\* `if (x)` for an optional number: undefined and 0 are falsy.
TruthyNumber(o) == o # Absent /\ o[1] # 0

\* One character standing for a "${Token[TOKEN.n]}" marker inside a string,
\* one for the "#{Token[TOKEN.n]}" marker of an encoded list, and the number
\* standing for an encoded number token.
StringTokenMarker == "$"
ListTokenMarker == "#"
NumberToken == -1

\* cdk.Token.isUnresolved on a string, a list of strings and a number.
isUnresolvedString(s) == \E i \in 1..Len(s) : s[i] = StringTokenMarker
isUnresolvedList(l) == Len(l) = 1 /\ \E i \in 1..Len(l[1]) : l[1][i] = ListTokenMarker
isUnresolvedNumber(n) == n = NumberToken

\* String.prototype.startsWith('/')
startsWithSlash(s) == Len(s) >= 1 /\ s[1] = "/"

\* String.prototype.toLowerCase, character by character.
LowerChar(c) ==
  CASE c = "A" -> "a"
    [] c = "B" -> "b"
    [] OTHER -> c
toLowerCase(s) == [i \in 1..Len(s) |-> LowerChar(s[i])]

\* Array.prototype.join
RECURSIVE join(_, _)
join(list, sep) ==
  IF Len(list) = 0 THEN ""
  ELSE IF Len(list) = 1 THEN list[1]
  ELSE list[1] \o sep \o join(Tail(list), sep)

\* Date.prototype.toUTCString, dates being milliseconds since the epoch.
toUTCString(date) ==
  CASE date = 0 -> "Thu, 01 Jan 1970 00:00:00 GMT"
    [] date = 86400000 -> "Fri, 02 Jan 1970 00:00:00 GMT"
    [] OTHER -> "Invalid Date"

\* kebab() of the 'case' package on the s3.BucketAccessControl values.
toKebabCase(s) ==
  CASE s = "Private" -> "private"
    [] s = "PublicRead" -> "public-read"
    [] s = "PublicReadWrite" -> "public-read-write"
    [] s = "BucketOwnerFullControl" -> "bucket-owner-full-control"
    [] OTHER -> s

-----------------------------------------------------------------------------
(* BucketDeploymentProps *)

SystemFields ==
  {"cacheControl", "expires", "contentDisposition", "contentEncoding",
   "contentLanguage", "contentType", "serverSideEncryption", "storageClass",
   "websiteRedirectLocation", "serverSideEncryptionAwsKmsKeyId",
   "serverSideEncryptionCustomerAlgorithm", "accessControl"}

\* Props with only the two required fields given.
DefaultProps ==
  [sources |-> <<"s1">>,
   destinationBucket |-> "b1",
   destinationKeyPrefix |-> Absent,
   exclude |-> Absent,
   include |-> Absent,
   prune |-> Absent,
   retainOnDelete |-> Absent,
   distribution |-> Absent,
   distributionPaths |-> Absent,
   memoryLimit |-> Absent,
   role |-> Absent,
   metadata |-> Absent,
   cacheControl |-> Absent,
   contentDisposition |-> Absent,
   contentEncoding |-> Absent,
   contentLanguage |-> Absent,
   contentType |-> Absent,
   expires |-> Absent,
   serverSideEncryption |-> Absent,
   storageClass |-> Absent,
   websiteRedirectLocation |-> Absent,
   serverSideEncryptionAwsKmsKeyId |-> Absent,
   serverSideEncryptionCustomerAlgorithm |-> Absent,
   accessControl |-> Absent,
   vpc |-> Absent,
   vpcSubnets |-> Absent]

-----------------------------------------------------------------------------
(* renderSingletonUuid *)

BaseUuid == "8693BB64-9689-44B6-9AAF-B0CC9EB8756C"

ErrMemoryLimitToken ==
  "Can't use tokens when specifying \"memoryLimit\" since we use it to identify the singleton custom resource handler"

\* The result is [error, uuid]: error is "ok", or the message thrown.
renderSingletonUuid(memoryLimit) ==
  IF TruthyNumber(memoryLimit)
  THEN IF isUnresolvedNumber(memoryLimit[1])
       THEN [error |-> ErrMemoryLimitToken, uuid |-> BaseUuid]
       ELSE [error |-> "ok",
             uuid |-> BaseUuid \o "-" \o ToString(memoryLimit[1]) \o "MiB"]
  ELSE [error |-> "ok", uuid |-> BaseUuid]

-----------------------------------------------------------------------------
(* mapUserMetadata *)

mapKey(key) == toLowerCase(key)

\* Mutant of spread: { [mapKey(key)]: metadata[key], ...o }, where a key that
\* is already there keeps its value.
spreadFirstWins(o, key, value) ==
  [k \in DOMAIN o \cup {mapKey(key)} |-> IF k \in DOMAIN o THEN o[k] ELSE value]

\* One step of the reduce: { ...o, [mapKey(key)]: metadata[key] }
spread(o, key, value) ==
  [k \in DOMAIN o \cup {mapKey(key)} |-> IF k = mapKey(key) THEN value ELSE o[k]]

RECURSIVE reduce(_, _, _)
reduce(metadata, i, o) ==
  IF i > Len(metadata) THEN o
  ELSE reduce(metadata, i + 1, spread(o, metadata[i][1], metadata[i][2]))

mapUserMetadata(metadata) == reduce(metadata, 1, <<>>)

-----------------------------------------------------------------------------
(* mapSystemMetadata *)

\* `if (metadata.f) { res[key] = value; }` as the entry it adds, or none.
entry(cond, key, value) == IF cond THEN key :> value ELSE <<>>

mapSystemMetadata(metadata) ==
  LET res ==
        entry(TruthyObject(metadata.cacheControl), "cache-control",
              join([i \in 1..Len(metadata.cacheControl[1]) |->
                      metadata.cacheControl[1][i].value], ", "))
        @@ entry(TruthyObject(metadata.expires), "expires",
                 toUTCString(metadata.expires[1].date))
        @@ entry(TruthyString(metadata.contentDisposition), "content-disposition",
                 metadata.contentDisposition[1])
        @@ entry(TruthyString(metadata.contentEncoding), "content-encoding",
                 metadata.contentEncoding[1])
        @@ entry(TruthyString(metadata.contentLanguage), "content-language",
                 metadata.contentLanguage[1])
        @@ entry(TruthyString(metadata.contentType), "content-type",
                 metadata.contentType[1])
        @@ entry(TruthyString(metadata.serverSideEncryption), "sse",
                 metadata.serverSideEncryption[1])
        @@ entry(TruthyString(metadata.storageClass), "storage-class",
                 metadata.storageClass[1])
        @@ entry(TruthyString(metadata.websiteRedirectLocation), "website-redirect",
                 metadata.websiteRedirectLocation[1])
        @@ entry(TruthyString(metadata.serverSideEncryptionAwsKmsKeyId), "sse-kms-key-id",
                 metadata.serverSideEncryptionAwsKmsKeyId[1])
        @@ entry(TruthyString(metadata.serverSideEncryptionCustomerAlgorithm),
                 "sse-c-copy-source",
                 metadata.serverSideEncryptionCustomerAlgorithm[1])
        @@ entry(TruthyString(metadata.accessControl), "acl",
                 toKebabCase(metadata.accessControl[1]))
  IN IF Cardinality(DOMAIN res) = 0 THEN Absent ELSE Some(res)

-----------------------------------------------------------------------------
(* Collaborators of the constructor *)

\* ISource.bind(scope, { handlerRole }): the SourceConfig of a source.
bind(source, handlerRole) ==
  [bucket |-> [bucketName |-> "assets-" \o source],
   zipObjectKey |-> source \o ".zip"]

\* lambda.Function: the handler a SingletonFunction creates from its props.
\* Its role is the role given, or a service role of its own.
newFunction(fprops) ==
  [functionArn |-> "arn:aws:lambda:fn-" \o fprops.uuid,
   role |-> IF fprops.role # Absent THEN fprops.role
            ELSE Some("ServiceRole-" \o fprops.uuid),
   memorySize |-> fprops.memorySize,
   vpc |-> fprops.vpc,
   vpcSubnets |-> fprops.vpcSubnets]

\* lambda.SingletonFunction.ensureLambda: the registry after a lookup of
\* fprops.uuid; a function is created only when the uuid is not registered.
ensureLambda(registry, fprops) ==
  IF fprops.uuid \in DOMAIN registry THEN registry
  ELSE [u \in DOMAIN registry \cup {fprops.uuid} |->
          IF u = fprops.uuid THEN newFunction(fprops) ELSE registry[u]]

\* destinationBucket.grantReadWrite(handler): the statement that ends up on
\* the policy of the handler's role.
grantReadWrite(bucket) ==
  [effect |-> "Allow",
   actions |-> {"s3:GetObject*", "s3:GetBucket*", "s3:List*",
                "s3:DeleteObject*", "s3:PutObject*", "s3:Abort*"},
   resources |-> {bucket}]

\* A role's policy after the statements are added to it.
addToRolePolicy(policy, role, statements) ==
  [r \in DOMAIN policy \cup {role} |->
     (IF r \in DOMAIN policy THEN policy[r] ELSE {})
     \cup (IF r = role THEN statements ELSE {})]

-----------------------------------------------------------------------------
(* BucketDeployment.constructor, step by step *)

ErrDistribution == "Distribution must be specified if distribution paths are specified"
ErrPaths == "Distribution paths must start with \"/\""
ErrNoRole == "lambda.SingletonFunction should have created a Role"

ValidationErrors == {ErrDistribution, ErrPaths, ErrMemoryLimitToken}

\* Mutant of validateDistributionPaths: an empty path list is taken for no
\* list (`distributionPaths && distributionPaths.length`).
validateDistributionPathsNonEmpty(p) ==
  IF TruthyObject(p.distributionPaths) /\ Len(p.distributionPaths[1]) # 0
  THEN IF ~TruthyObject(p.distribution) THEN ErrDistribution
       ELSE IF ~isUnresolvedList(p.distributionPaths[1])
               /\ ~(\A i \in 1..Len(p.distributionPaths[1]) :
                       isUnresolvedString(p.distributionPaths[1][i])
                       \/ startsWithSlash(p.distributionPaths[1][i]))
            THEN ErrPaths
            ELSE "ok"
  ELSE "ok"

\* Mutant of validateDistributionPaths: token entries are not exempt.
validateDistributionPathsNoTokens(p) ==
  IF TruthyObject(p.distributionPaths)
  THEN IF ~TruthyObject(p.distribution) THEN ErrDistribution
       ELSE IF ~isUnresolvedList(p.distributionPaths[1])
               /\ ~(\A i \in 1..Len(p.distributionPaths[1]) :
                       startsWithSlash(p.distributionPaths[1][i]))
            THEN ErrPaths
            ELSE "ok"
  ELSE "ok"

\* The check of distributionPaths: "ok" or the message thrown.
validateDistributionPaths(p) ==
  IF TruthyObject(p.distributionPaths)
  THEN IF ~TruthyObject(p.distribution) THEN ErrDistribution
       ELSE IF ~isUnresolvedList(p.distributionPaths[1])
               /\ ~(\A i \in 1..Len(p.distributionPaths[1]) :
                       isUnresolvedString(p.distributionPaths[1][i])
                       \/ startsWithSlash(p.distributionPaths[1][i]))
            THEN ErrPaths
            ELSE "ok"
  ELSE "ok"

\* The props object handed to lambda.SingletonFunction.
singletonFunctionProps(p, uuid) ==
  [uuid |-> uuid,
   runtime |-> "python3.6",
   handler |-> "index.handler",
   lambdaPurpose |-> "Custom::CDKBucketDeployment",
   timeout |-> "15 minutes",
   role |-> p.role,
   memorySize |-> p.memoryLimit,
   vpc |-> p.vpc,
   vpcSubnets |-> p.vpcSubnets]

\* Mutant of createHandler: the singleton is looked up, under the base uuid,
\* before the memory limit is checked.
createHandlerBeforeCheck(p) ==
  LET u == renderSingletonUuid(p.memoryLimit)
  IN IF u.error # "ok"
     THEN [error |-> u.error, uuid |-> u.uuid, layers |-> layers + 1,
           handlers |-> ensureLambda(handlers, singletonFunctionProps(p, u.uuid))]
     ELSE [error |-> "ok", uuid |-> u.uuid, layers |-> layers + 1,
           handlers |-> ensureLambda(handlers, singletonFunctionProps(p, u.uuid))]

\* Mutant of createHandler: the memory limit is not passed to
\* renderSingletonUuid, so every deployment asks for the base uuid.
createHandlerOneUuid(p) ==
  LET u == renderSingletonUuid(Absent)
  IN [error |-> "ok", uuid |-> u.uuid, layers |-> layers + 1,
      handlers |-> ensureLambda(handlers, singletonFunctionProps(p, u.uuid))]

\* new lambda.SingletonFunction(...): the object literal evaluates uuid first
\* (which may throw), then creates the AwsCliLayer, then the singleton is
\* looked up.  The result is [error, uuid, layers, handlers].
createHandler(p) ==
  LET u == renderSingletonUuid(p.memoryLimit)
  IN IF u.error # "ok"
     THEN [error |-> u.error, uuid |-> u.uuid, layers |-> layers, handlers |-> handlers]
     ELSE [error |-> "ok", uuid |-> u.uuid, layers |-> layers + 1,
           handlers |-> ensureLambda(handlers, singletonFunctionProps(p, u.uuid))]

\* Mutant of bindSources: the configs are collected in reverse order.
bindSourcesReversed(sources, handlerRole) ==
  [i \in 1..Len(sources) |-> bind(sources[Len(sources) + 1 - i], handlerRole)]

\* props.sources.map(source => source.bind(this, { handlerRole }))
bindSources(sources, handlerRole) ==
  [i \in 1..Len(sources) |-> bind(sources[i], handlerRole)]

\* The bind calls that map makes, in order.
bindCalls(scope, sources, handlerRole) ==
  [i \in 1..Len(sources) |->
     [scope |-> scope, source |-> sources[i], handlerRole |-> handlerRole]]

CloudFrontStatement ==
  [effect |-> "Allow",
   actions |-> {"cloudfront:GetInvalidation", "cloudfront:CreateInvalidation"},
   resources |-> {"*"}]

\* Mutant of handlerStatements: the invalidation permissions are granted
\* whether or not a distribution is given.
handlerStatementsAlways(p) ==
  {grantReadWrite(p.destinationBucket), CloudFrontStatement}

\* The statements the constructor puts on the handler's role.
handlerStatements(p) ==
  {grantReadWrite(p.destinationBucket)}
  \cup (IF TruthyObject(p.distribution) THEN {CloudFrontStatement} ELSE {})

\* Mutant of pruneOrDefault: props.prune || true
pruneOrTrue(prune) == IF prune = Absent \/ prune[1] = FALSE THEN TRUE ELSE prune[1]

\* props.prune ?? true
pruneOrDefault(prune) == IF prune = Absent THEN TRUE ELSE prune[1]

\* The properties of the custom resource.
properties(p, sources) ==
  [SourceBucketNames |-> [i \in 1..Len(sources) |-> sources[i].bucket.bucketName],
   SourceObjectKeys |-> [i \in 1..Len(sources) |-> sources[i].zipObjectKey],
   DestinationBucketName |-> p.destinationBucket,
   DestinationBucketKeyPrefix |-> p.destinationKeyPrefix,
   RetainOnDelete |-> p.retainOnDelete,
   Prune |-> pruneOrDefault(p.prune),
   Exclude |-> p.exclude,
   Include |-> p.include,
   UserMetadata |-> IF TruthyObject(p.metadata)
                    THEN Some(mapUserMetadata(p.metadata[1])) ELSE Absent,
   SystemMetadata |-> mapSystemMetadata(p),
   DistributionId |-> IF p.distribution = Absent THEN Absent
                      ELSE Some(p.distribution[1].distributionId),
   DistributionPaths |-> p.distributionPaths]

\* new cdk.CustomResource(this, 'CustomResource', { ... })
customResource(scope, p, handler, sources) ==
  [scope |-> scope,
   serviceToken |-> handler.functionArn,
   resourceType |-> "Custom::CDKBucketDeployment",
   properties |-> properties(p, sources)]

\* A constructor call that throws: what was done before the throw stays.
Throw(p, message, h) ==
  /\ props' = p
  /\ error' = message
  /\ nConstructs' = nConstructs + 1
  /\ handlers' = h.handlers
  /\ layers' = h.layers
  /\ UNCHANGED <<rolePolicy, bindLog, resources, deployments>>

\* new BucketDeployment(scope, id, p)
BucketDeployment(p) ==
  LET scope == nConstructs + 1
      invalid == validateDistributionPaths(p)
      h == createHandler(p)
      handler == h.handlers[h.uuid]
      sources == bindSources(p.sources, handler.role[1])
  IN /\ IF invalid # "ok"
        THEN Throw(p, invalid, [handlers |-> handlers, layers |-> layers])
        ELSE IF h.error # "ok" THEN Throw(p, h.error, h)
        ELSE IF handler.role = Absent THEN Throw(p, ErrNoRole, h)
        ELSE /\ props' = p
             /\ error' = "ok"
             /\ nConstructs' = scope
             /\ handlers' = h.handlers
             /\ layers' = h.layers
             /\ bindLog' = bindLog \o bindCalls(scope, p.sources, handler.role[1])
             /\ rolePolicy' = addToRolePolicy(rolePolicy, handler.role[1],
                                              handlerStatements(p))
             /\ resources' = Append(resources, customResource(scope, p, handler, sources))
             /\ deployments' = Append(deployments, p)
     /\ UNCHANGED <<arg, ret, pc>>

\* An empty stack, and no function called on its own.
InitStack ==
  /\ nConstructs = 0
  /\ handlers = <<>>
  /\ layers = 0
  /\ rolePolicy = <<>>
  /\ bindLog = <<>>
  /\ resources = <<>>
  /\ deployments = <<>>
  /\ props = DefaultProps
  /\ error = "none"

-----------------------------------------------------------------------------
(* Inputs *)

Distribution == [distributionId |-> "E2DISTRIBUTION"]

\* Sequences over S of length lo..hi.
SeqsOf(S, lo, hi) == UNION {[1..n -> S] : n \in lo..hi}

\* Invalidation paths: "/a", "a", and a string token.
PathValues == {<<"/", "a">>, <<"a">>, <<StringTokenMarker>>}

\* A list that is one encoded list token.
ListToken == <<<<ListTokenMarker>>>>

DistributionPathLists == SeqsOf(PathValues, 0, MaxPaths) \cup {ListToken}

\* Props of the constructions that populate the handler registry.
HandlerProps ==
  {[DefaultProps EXCEPT !.memoryLimit = m, !.role = c.role, !.vpc = c.vpc,
                        !.distribution = d, !.destinationBucket = b] :
     m \in {Absent, Some(128), Some(256)},
     c \in {[role |-> Absent, vpc |-> Absent],
            [role |-> Some("r1"), vpc |-> Some("vpc-1")]},
     d \in {Absent, Some(Distribution)},
     b \in {"b1", "b2"}}

\* Props that exercise the validation of the constructor.
ValidationProps ==
  {[DefaultProps EXCEPT !.distributionPaths = dp, !.distribution = d,
                        !.memoryLimit = m] :
     dp \in {Absent} \cup {Some(l) : l \in DistributionPathLists},
     d \in {Absent, Some(Distribution)},
     m \in {Absent, Some(128), Some(NumberToken)}}

\* Props that exercise the emitted record.
RecordProps ==
  {[DefaultProps EXCEPT !.sources = s, !.prune = pr, !.role = r] :
     s \in SeqsOf({"s1", "s2"}, 0, MaxSources),
     pr \in {Absent, Some(TRUE), Some(FALSE)},
     r \in {Absent, Some("r1")}}

MemoryLimits ==
  {Absent, Some(NumberToken)} \cup {Some(n) : n \in 0..MaxMemoryLimit}

\* User metadata objects: entries with distinct keys, in Object.keys order.
KeyChars == {"a", "A", "b"}
Keys == SeqsOf(KeyChars, 1, MaxKeyLen)
UserMetadataObjects ==
  {m \in SeqsOf(Keys \X {"v1", "v2"}, 0, MaxEntries) :
     \A i, j \in 1..Len(m) : i # j => m[i][1] # m[j][1]}

\* A value of a system metadata field, and its falsy variant where the
\* field's type has one (an empty string; for cacheControl, an empty list,
\* which is not falsy).
FullValue(f) ==
  CASE f = "cacheControl" -> Some(<<[value |-> "must-revalidate"], [value |-> "max-age=3600"]>>)
    [] f = "expires" -> Some([date |-> 86400000])
    [] f = "serverSideEncryption" -> Some("aws:kms")
    [] f = "storageClass" -> Some("STANDARD_IA")
    [] f = "accessControl" -> Some("PublicRead")
    [] OTHER -> Some("x")

EmptyValue(f) ==
  CASE f = "cacheControl" -> Some(<<>>)
    [] f \in {"expires", "serverSideEncryption", "storageClass", "accessControl"} -> FullValue(f)
    [] OTHER -> Some("")

\* Props with the system fields in S set, those in E to their empty variant.
SystemProps(S, E) ==
  [f \in DOMAIN DefaultProps |->
     IF f \in S THEN (IF f \in E THEN EmptyValue(f) ELSE FullValue(f))
     ELSE DefaultProps[f]]

SystemMetadataProps ==
  UNION {{SystemProps(S, E) : E \in SUBSET S} :
           S \in {T \in SUBSET SystemFields : Cardinality(T) <= MaxSystemFields}}

-----------------------------------------------------------------------------
(* Specifications *)

InitIdle == arg = Absent /\ ret = Absent /\ pc = "idle"

Init == InitStack /\ InitIdle

\* Deployments that share and split handlers.
Next == nConstructs < MaxConstructs /\ \E p \in HandlerProps : BucketDeployment(p)

Spec == Init /\ [][Next]_vars

\* Deployments with valid and invalid options.
NextValidation == nConstructs < MaxCalls /\ \E p \in ValidationProps : BucketDeployment(p)

SpecValidation == Init /\ [][NextValidation]_vars

\* Deployments with varying sources and prune.
NextRecord == nConstructs < MaxCalls /\ \E p \in RecordProps : BucketDeployment(p)

SpecRecord == Init /\ [][NextRecord]_vars

\* renderSingletonUuid called on its own.
InitUuid == InitStack /\ arg \in MemoryLimits /\ ret = Absent /\ pc = "idle"

CallRenderSingletonUuid ==
  /\ pc = "idle"
  /\ ret' = renderSingletonUuid(arg)
  /\ pc' = "called"
  /\ UNCHANGED <<arg, stackVars>>

SpecUuid == InitUuid /\ [][CallRenderSingletonUuid]_vars

\* mapUserMetadata called on its own.
InitUserMetadata == InitStack /\ arg \in UserMetadataObjects /\ ret = Absent /\ pc = "idle"

CallMapUserMetadata ==
  /\ pc = "idle"
  /\ ret' = mapUserMetadata(arg)
  /\ pc' = "called"
  /\ UNCHANGED <<arg, stackVars>>

SpecUserMetadata == InitUserMetadata /\ [][CallMapUserMetadata]_vars

\* mapSystemMetadata called on its own.
InitSystemMetadata == InitStack /\ arg \in SystemMetadataProps /\ ret = Absent /\ pc = "idle"

CallMapSystemMetadata ==
  /\ pc = "idle"
  /\ ret' = mapSystemMetadata(arg)
  /\ pc' = "called"
  /\ UNCHANGED <<arg, stackVars>>

SpecSystemMetadata == InitSystemMetadata /\ [][CallMapSystemMetadata]_vars

-----------------------------------------------------------------------------
(* Properties *)

\* The identity key of the handler a descriptor asks for.
KeyOf(p) == renderSingletonUuid(p.memoryLimit).uuid

\* The handler a custom resource points at.
HandlersOf(resource) ==
  {u \in DOMAIN handlers : handlers[u].functionArn = resource.serviceToken}

\* The paths are a statically known list with a statically known entry that
\* does not start with "/".
HasStaticBadPath(p) ==
  /\ p.distributionPaths # Absent
  /\ ~isUnresolvedList(p.distributionPaths[1])
  /\ \E i \in 1..Len(p.distributionPaths[1]) :
       /\ ~isUnresolvedString(p.distributionPaths[1][i])
       /\ ~startsWithSlash(p.distributionPaths[1][i])

\* C1: whenever the last constructor call was given distributionPaths (an
\* empty list included) and no distribution, it failed with the
\* distribution-required error, whatever the other options were.
C1_DistributionRequired ==
  (nConstructs > 0 /\ props.distributionPaths # Absent /\ props.distribution = Absent)
    => error = ErrDistribution

\* An empty path list, no distribution, and a memory limit that would itself
\* be rejected: the distribution-required error is the one thrown.
C1_Witness ==
  /\ nConstructs > 0
  /\ props.distributionPaths = Some(<<>>)
  /\ props.distribution = Absent
  /\ props.memoryLimit = Some(NumberToken)
  /\ error = ErrDistribution

\* C2 as stated: every statically known path list with an entry that is
\* statically known and does not start with "/" makes the construction fail
\* with the leading-slash error.
C2_Original ==
  (nConstructs > 0 /\ HasStaticBadPath(props)) => error = ErrPaths

\* C2, amended: the construction fails with the leading-slash error exactly
\* when a distribution is supplied and the paths are a statically known list
\* with a statically known entry that does not start with "/"; token entries
\* and a token list never raise it.
C2_LeadingSlash ==
  nConstructs > 0 =>
    (error = ErrPaths <=> (props.distribution # Absent /\ HasStaticBadPath(props)))

\* A list mixing a token entry with a bad entry was rejected.
C2_Witness ==
  /\ nConstructs > 0
  /\ error = ErrPaths
  /\ props.distributionPaths = Some(<<<<StringTokenMarker>>, <<"a">>>>)

\* C3: after renderSingletonUuid(m), a call without a hint returns the bare
\* base identity, and a call with a statically known number m returns the
\* base identity followed by "-", m and "MiB" (so never the bare one).
C3_SuffixedIdentity ==
  pc = "called" =>
    /\ arg = Absent => ret = [error |-> "ok", uuid |-> BaseUuid]
    /\ (arg # Absent /\ ~isUnresolvedNumber(arg[1])) =>
         /\ ret.error = "ok"
         /\ ret.uuid = BaseUuid \o "-" \o ToString(arg[1]) \o "MiB"
         /\ ret.uuid # BaseUuid

\* The fixed key of each system metadata field.
SystemKey(f) ==
  CASE f = "cacheControl" -> "cache-control"
    [] f = "expires" -> "expires"
    [] f = "contentDisposition" -> "content-disposition"
    [] f = "contentEncoding" -> "content-encoding"
    [] f = "contentLanguage" -> "content-language"
    [] f = "contentType" -> "content-type"
    [] f = "serverSideEncryption" -> "sse"
    [] f = "storageClass" -> "storage-class"
    [] f = "websiteRedirectLocation" -> "website-redirect"
    [] f = "serverSideEncryptionAwsKmsKeyId" -> "sse-kms-key-id"
    [] f = "serverSideEncryptionCustomerAlgorithm" -> "sse-c-copy-source"
    [] f = "accessControl" -> "acl"

\* C4: after mapSystemMetadata(props), the result is absent when no system
\* field is set, and otherwise an object with exactly the keys of the set
\* fields, a field set to "" or to an empty list counting as set.
C4_OneEntryPerSetField ==
  pc = "called" =>
    LET set == {f \in SystemFields : arg[f] # Absent}
    IN IF set = {} THEN ret = Absent
       ELSE ret # Absent /\ DOMAIN ret[1] = {SystemKey(f) : f \in set}

\* For every completed deployment k: the record it emitted lists the bucket
\* names and object keys of its sources in input order, and the bind calls of
\* its scope are one per source, in order, with the handler's role.
SourcesInOrder(k) ==
  LET p == deployments[k]
      rec == resources[k].properties
      role == handlers[KeyOf(p)].role[1]
      n == Len(p.sources)
  IN /\ Len(rec.SourceBucketNames) = n
     /\ Len(rec.SourceObjectKeys) = n
     /\ \A i \in 1..n :
          /\ rec.SourceBucketNames[i] = bind(p.sources[i], role).bucket.bucketName
          /\ rec.SourceObjectKeys[i] = bind(p.sources[i], role).zipObjectKey
     /\ SelectSeq(bindLog, LAMBDA b : b.scope = resources[k].scope)
          = [i \in 1..n |-> [scope |-> resources[k].scope, source |-> p.sources[i],
                             handlerRole |-> role]]

\* C5: SourceBucketNames and SourceObjectKeys are parallel lists, the i-th
\* entries being what binding the i-th source returned; each source is bound
\* exactly once, with the handler's role.
C5_SourcesParallel ==
  \A k \in 1..Len(deployments) : SourcesInOrder(k)

\* Two sources out of alphabetical order, bound with the role the first
\* deployment gave the shared handler.
C5_Witness ==
  /\ Len(deployments) = 2
  /\ deployments[1].role = Some("r1")
  /\ deployments[2].role = Absent
  /\ deployments[2].sources = <<"s2", "s1">>
  /\ resources[2].properties.SourceObjectKeys = <<"s2.zip", "s1.zip">>

\* C6: the record of a deployment that omitted prune has Prune = true, and
\* the record of one that supplied prune has the supplied value.
C6_PruneDefault ==
  \A k \in 1..Len(deployments) :
    /\ resources[k].properties.Prune \in BOOLEAN
    /\ deployments[k].prune = Absent => resources[k].properties.Prune = TRUE
    /\ deployments[k].prune # Absent =>
         resources[k].properties.Prune = deployments[k].prune[1]

\* A deployment without prune, after one with prune: false.
C6_Witness ==
  /\ Len(deployments) = 2
  /\ deployments[1].prune = Some(FALSE)
  /\ resources[1].properties.Prune = FALSE
  /\ deployments[2].prune = Absent
  /\ resources[2].properties.Prune = TRUE

\* C7 as stated: the result maps the lower-cased key of every entry to that
\* entry's value, and has no other keys.
C7_Original ==
  pc = "called" =>
    /\ DOMAIN ret = {toLowerCase(arg[i][1]) : i \in 1..Len(arg)}
    /\ \A i \in 1..Len(arg) : ret[toLowerCase(arg[i][1])] = arg[i][2]

\* C7, amended: the keys of the result are the lower-cased keys of the input,
\* and each maps to the value of the last entry, in key order, whose key
\* lower-cases to it; an entry's value is kept unless a later key differs
\* from its key only in letter case.
C7_LastKeyWins ==
  pc = "called" =>
    /\ DOMAIN ret = {toLowerCase(arg[i][1]) : i \in 1..Len(arg)}
    /\ \A i \in 1..Len(arg) :
         (\A j \in (i + 1)..Len(arg) : toLowerCase(arg[j][1]) # toLowerCase(arg[i][1]))
           => ret[toLowerCase(arg[i][1])] = arg[i][2]

\* Two keys that differ only in case, with different values.
C7_Witness ==
  /\ pc = "called"
  /\ arg = <<<<<<"A", "b">>, "v1">>, <<<<"a", "b">>, "v2">>>>
  /\ ret[<<"a", "b">>] = "v2"

\* C8: a constructor call that throws one of the three validation errors
\* leaves the handler registry, the bind calls, the role policies and the
\* emitted resources as they were; and the errors are checked in the order
\* distribution, leading slash, memory limit.
C8_ValidationNoSideEffects ==
  [][(nConstructs' # nConstructs /\ error' \in ValidationErrors) =>
       /\ handlers' = handlers
       /\ bindLog' = bindLog
       /\ rolePolicy' = rolePolicy
       /\ resources' = resources
       /\ error' = ErrPaths => props'.distribution # Absent
       /\ error' = ErrMemoryLimitToken =>
            /\ ~(props'.distributionPaths # Absent /\ props'.distribution = Absent)
            /\ ~HasStaticBadPath(props')]_vars

\* A call rejected for its memory limit, after a deployment that completed.
C8_Witness ==
  /\ nConstructs = 2
  /\ error = ErrMemoryLimitToken
  /\ Len(resources) = 1
  /\ Cardinality(DOMAIN handlers) = 1

\* Whether deployment k supplied a distribution.
HasDistribution(k) == deployments[k].distribution # Absent

\* Every handler's role may read and write the destination bucket of each
\* deployment that resolved to the handler, and a record carries
\* DistributionId exactly when its deployment supplied a distribution.
C9_Access ==
  /\ \A k \in 1..Len(deployments) :
       /\ \A u \in HandlersOf(resources[k]) :
            grantReadWrite(deployments[k].destinationBucket)
              \in rolePolicy[handlers[u].role[1]]
       /\ resources[k].properties.DistributionId # Absent <=> HasDistribution(k)
  /\ \A u \in DOMAIN handlers : handlers[u].role[1] \in DOMAIN rolePolicy

\* C9 as stated: a handler holds the cache-invalidation permissions if and
\* only if a deployment that resolved to it supplied a distribution.
C9_Original ==
  /\ C9_Access
  /\ \A u \in DOMAIN handlers :
       CloudFrontStatement \in rolePolicy[handlers[u].role[1]]
         <=> \E k \in 1..Len(deployments) :
               u \in HandlersOf(resources[k]) /\ HasDistribution(k)

\* C9, amended: a handler holds the cache-invalidation permissions if and
\* only if a deployment that resolved to it, or to a handler running under
\* the same role, supplied a distribution.
C9_Permissions ==
  /\ C9_Access
  /\ \A u \in DOMAIN handlers :
       CloudFrontStatement \in rolePolicy[handlers[u].role[1]]
         <=> \E k \in 1..Len(deployments) :
               /\ HasDistribution(k)
               /\ \E v \in HandlersOf(resources[k]) :
                    handlers[v].role = handlers[u].role

\* Two handlers under one role, only one of them serving a deployment with a
\* distribution, and a third handler that holds no such permission.
C9_Witness ==
  /\ Len(deployments) = 3
  /\ Cardinality(DOMAIN handlers) = 3
  /\ \E u, v \in DOMAIN handlers :
       /\ u # v
       /\ handlers[u].role = handlers[v].role
       /\ CloudFrontStatement \in rolePolicy[handlers[u].role[1]]
       /\ \A k \in 1..Len(deployments) :
            v \in HandlersOf(resources[k]) => ~HasDistribution(k)
  /\ \E w \in DOMAIN handlers :
       CloudFrontStatement \notin rolePolicy[handlers[w].role[1]]

\* The first completed deployment that asked for key u.
FirstWith(u) ==
  CHOOSE k \in 1..Len(deployments) :
    /\ KeyOf(deployments[k]) = u
    /\ \A j \in 1..(k - 1) : KeyOf(deployments[j]) # u

\* C10: there are as many handlers as distinct identity keys among the
\* completed deployments; each completed deployment emitted exactly one
\* record, whose service token is the handler registered under its key; and
\* each handler has the configuration of the first deployment with its key.
C10_FirstWriterWins ==
  /\ Cardinality(DOMAIN handlers)
       = Cardinality({KeyOf(deployments[k]) : k \in 1..Len(deployments)})
  /\ Len(resources) = Len(deployments)
  /\ \A j, k \in 1..Len(resources) : resources[j].scope = resources[k].scope => j = k
  /\ \A k \in 1..Len(deployments) :
       /\ KeyOf(deployments[k]) \in DOMAIN handlers
       /\ resources[k].serviceToken = handlers[KeyOf(deployments[k])].functionArn
  /\ \A u \in DOMAIN handlers :
       /\ \E k \in 1..Len(deployments) : KeyOf(deployments[k]) = u
       /\ handlers[u] = newFunction(singletonFunctionProps(deployments[FirstWith(u)], u))

\* Two deployments with one key and different roles, and a third with
\* another key.
C10_Witness ==
  /\ Len(deployments) = 3
  /\ Cardinality(DOMAIN handlers) = 2
  /\ KeyOf(deployments[1]) = KeyOf(deployments[2])
  /\ deployments[1].role = Some("r1")
  /\ deployments[2].role = Absent
  /\ handlers[KeyOf(deployments[2])].role = Some("r1")
  /\ resources[2].serviceToken = resources[1].serviceToken
  /\ resources[3].serviceToken # resources[1].serviceToken

====
